---- MODULE Spec2Model ----
(***************************************************************************)
(* Model of src/src/utils/HyperCache/index.ts (SharedPathCache,            *)
(* FileWorkerPool, HyperScalePathResolver) and of the file worker in       *)
(* src/src/controllers/auth/dto/index.ts.                                  *)
(*                                                                         *)
(* Strings are sequences of one-character strings, so that normalisation   *)
(* and concatenation are computed. One action is one run-to-completion     *)
(* step of the JavaScript event loop: a call made by a caller, a callback  *)
(* (worker message, timer) or one microtask.                               *)
(***************************************************************************)
EXTENDS Integers, Sequences, FiniteSets, TLC

\* ------------------------------------------------------------------------
\* Bounds of the model
\* ------------------------------------------------------------------------
MaxTime == 2
MaxStat == 2
MaxCalls == 3
MaxCrashes == 1
MaxLen == 4

\* ------------------------------------------------------------------------
\* Program constants of SharedPathCache. The shard count, the shard size,
\* the small-shard threshold, the sample count and the number of shards a
\* cleanup scans are
\* scaled down (128, 512, 32, 4, 16 in the source) keeping their order:
\* SMALL_SHARD < SHARD_SIZE and CLEANUP_SCANS < CACHE_SHARDS.
\* ------------------------------------------------------------------------
CACHE_SHARDS == 2
SHARD_SIZE == 2
SMALL_SHARD == 1
EVICT_SAMPLES == 2
CLEANUP_SCANS == 1

\* JavaScript's null for an object and undefined for a string.
Null == [null |-> TRUE]
Undefined == <<"undefined">>

\* The number Infinity: larger than every time the model reaches, and
\* absorbing under addition.
Infinity == 1000000000
Plus(a, b) == IF a >= Infinity \/ b >= Infinity THEN Infinity ELSE a + b

\* ------------------------------------------------------------------------
\* Strings
\* ------------------------------------------------------------------------
Alphabet == <<"a", "b", "c", "d", "/", ".", " ">>

Code(c) == CHOOSE i \in 1..Len(Alphabet) : Alphabet[i] = c

RECURSIVE CodeSum(_)
CodeSum(s) == IF s = <<>> THEN 0 ELSE Code(Head(s)) + CodeSum(Tail(s))

\* getShard: a deterministic hash of the key, masked to the shard count.
getShard(key) == CodeSum(key) % CACHE_SHARDS

Truthy(s) == s # <<>>

\* ------------------------------------------------------------------------
\* SharedPathCache. A shard is a JavaScript Map: a sequence of entries
\* [k, p, e] in insertion order, at most one per key.
\* ------------------------------------------------------------------------
ShardIds == 0..(CACHE_SHARDS - 1)

IndexOf(shard, key) ==
  IF \E i \in 1..Len(shard) : shard[i].k = key
    THEN CHOOSE i \in 1..Len(shard) : shard[i].k = key
    ELSE 0

RemoveAt(seq, i) == SubSeq(seq, 1, i - 1) \o SubSeq(seq, i + 1, Len(seq))

MapSet(shard, key, entry) ==
  LET i == IndexOf(shard, key) IN
  IF i = 0 THEN Append(shard, entry) ELSE [shard EXCEPT ![i] = entry]

MapDelete(shard, key) ==
  LET i == IndexOf(shard, key) IN
  IF i = 0 THEN shard ELSE RemoveAt(shard, i)

GetExpiredMut(t, e) == t > e + 1
\* get: `now > entry.e`
GetExpired(t, e) == t > e

\* get(key) at time t: the new shards, the new stats and the value returned
\* (Undefined when absent).
CacheGet(sh, st, key, t) ==
  LET s == getShard(key)
      i == IndexOf(sh[s], key)
  IN  IF i = 0
        THEN [shards |-> sh, stats |-> [st EXCEPT !.m = @ + 1], ret |-> Undefined]
        ELSE IF GetExpired(t, sh[s][i].e)
          THEN [shards |-> [sh EXCEPT ![s] = MapDelete(@, key)],
                stats |-> [st EXCEPT !.e = @ + 1], ret |-> Undefined]
          ELSE [shards |-> sh, stats |-> [st EXCEPT !.h = @ + 1], ret |-> sh[s][i].p]

\* The sampling loop of evictRandom from its i-th draw on: the index of the
\* entry to evict, 0 for null.
RECURSIVE SampleMin(_, _, _, _, _)
SampleMin(entries, sample, i, minExpire, keyToEvict) ==
  IF i > Len(sample) THEN keyToEvict
  ELSE IF entries[sample[i]].e < minExpire
    THEN SampleMin(entries, sample, i + 1, entries[sample[i]].e, sample[i])
    ELSE SampleMin(entries, sample, i + 1, minExpire, keyToEvict)

\* evictRandom(shard) with the random indices drawn being `sample`:
\* the new shard and the number of evictions counted.
evictRandom(shard, sample) ==
  IF Len(shard) <= SMALL_SHARD /\ Len(shard) > 0
    THEN [shard |-> Tail(shard), evicted |-> 1]
    ELSE LET best == SampleMin(shard, sample, 1, Infinity, 0) IN
         IF best # 0 /\ Truthy(shard[best].k)
           THEN [shard |-> RemoveAt(shard, best), evicted |-> 1]
           ELSE [shard |-> shard, evicted |-> 0]

\* The samples evictRandom can draw from a shard.
Samples(shard) ==
  IF Len(shard) = 0 THEN {<<>>}
  ELSE [1..EVICT_SAMPLES -> 1..Len(shard)]

\* set(key, path, ttlMs) at time t.
CacheSet(sh, st, key, path, ttlMs, t, sample) ==
  LET s == getShard(key)
      ev == IF Len(sh[s]) >= SHARD_SIZE
              THEN evictRandom(sh[s], sample)
              ELSE [shard |-> sh[s], evicted |-> 0]
  IN  [shards |-> [sh EXCEPT ![s] = MapSet(ev.shard, key, [k |-> key, p |-> path, e |-> Plus(t, ttlMs)])],
       stats |-> [st EXCEPT !.e = @ + ev.evicted]]

\* The samples a set(key, ...) can draw: none unless the shard is full.
SetSamples(sh, key) ==
  IF Len(sh[getShard(key)]) >= SHARD_SIZE THEN Samples(sh[getShard(key)]) ELSE {<<>>}

CleanupExpiredMut(t, e) == t > e + 1
\* cleanup: `now > entry.e`
CleanupExpired(t, e) == t > e

RECURSIVE PurgeExpired(_, _)
PurgeExpired(shard, t) ==
  IF shard = <<>> THEN <<>>
  ELSE IF CleanupExpired(t, Head(shard).e)
    THEN PurgeExpired(Tail(shard), t)
    ELSE <<Head(shard)>> \o PurgeExpired(Tail(shard), t)

RECURSIVE SumLen(_, _)
SumLen(sh, ids) ==
  IF ids = {} THEN 0
  ELSE LET s == CHOOSE x \in ids : TRUE IN Len(sh[s]) + SumLen(sh, ids \ {s})

\* cleanup() at time t, the random shard indices drawn being `picks`.
CacheCleanup(sh, st, t, picks) ==
  LET scanned == {picks[i] : i \in 1..Len(picks)}
      sh2 == [s \in ShardIds |-> IF s \in scanned THEN PurgeExpired(sh[s], t) ELSE sh[s]]
  IN  [shards |-> sh2,
       stats |-> [st EXCEPT !.e = @ + (SumLen(sh, ShardIds) - SumLen(sh2, ShardIds))],
       scanned |-> scanned]

CleanupPicks == [1..CLEANUP_SCANS -> ShardIds]

CacheDisposeMut(sh) == sh

\* dispose(): the interval is cleared and every shard emptied.
CacheDispose(sh) == [s \in ShardIds |-> <<>>]

\* ------------------------------------------------------------------------
\* FileWorkerPool. The pool is a record of the object's fields; `inbox` holds
\* the messages posted to the workers that they have not answered yet.
\* Worker ids start at 0 as in the source; activeTasks is indexed from 1 and
\* index 0 stands for the -1 of findTaskIndex.
\* ------------------------------------------------------------------------
TASK_ID_WRAP == 1000000
UINT8 == 256

\* workerStatus[w]-- and workerStatus[w]++ on a Uint8Array (a write outside
\* the array is ignored).
U8Dec(ws, w) == IF w \in DOMAIN ws THEN [ws EXCEPT ![w] = (@ + UINT8 - 1) % UINT8] ELSE ws
U8Inc(ws, w) == IF w \in DOMAIN ws THEN [ws EXCEPT ![w] = (@ + 1) % UINT8] ELSE ws

NewPool(options) ==
  [workers |-> options.numWorkers,
   workerStatus |-> [w \in 0..(options.numWorkers - 1) |-> 0],
   taskQueue |-> <<>>,
   processing |-> FALSE,
   maxConcurrentTasksPerWorker |-> options.maxConcurrentTasksPerWorker,
   workerTimeout |-> options.workerTimeout,
   activeTasks |-> [i \in 1..(options.numWorkers * options.maxConcurrentTasksPerWorker) |-> Null],
   nextTaskId |-> 0,
   generation |-> [w \in 0..(options.numWorkers - 1) |-> 0],
   inbox |-> {}]

\* The state of a pool after terminate(), also standing for "no pool".
TerminatedPool(pl) ==
  [pl EXCEPT !.workers = 0, !.workerStatus = <<>>, !.activeTasks = <<>>,
             !.taskQueue = <<>>, !.generation = <<>>, !.inbox = {}]

findTaskIndex(activeTasks, workerId, taskId) ==
  LET hits == {i \in 1..Len(activeTasks) :
                 /\ activeTasks[i] # Null
                 /\ activeTasks[i].workerId = workerId
                 /\ activeTasks[i].taskId = taskId}
  IN  IF hits = {} THEN 0 ELSE CHOOSE i \in hits : \A j \in hits : i <= j

\* The comparator of taskQueue.sort and Array.prototype.sort, which is stable.
TaskCmp(a, b) == b.priority - a.priority

RECURSIVE TaskInsert(_, _)
TaskInsert(s, x) ==
  IF s = <<>> THEN <<x>>
  ELSE IF TaskCmp(Head(s), x) <= 0 THEN <<Head(s)>> \o TaskInsert(Tail(s), x)
  ELSE <<x>> \o s

RECURSIVE TaskSort(_)
TaskSort(s) ==
  IF s = <<>> THEN <<>> ELSE TaskInsert(TaskSort(SubSeq(s, 1, Len(s) - 1)), s[Len(s)])

\* checkPath: the task is pushed; the caller queues the processQueue microtask.
checkPath(pl, path, req, priority) ==
  [pl EXCEPT !.taskQueue = Append(@, [path |-> path, req |-> req, priority |-> priority])]

FreeSlot(activeTasks) ==
  IF \E i \in 1..Len(activeTasks) : activeTasks[i] = Null
    THEN CHOOSE i \in 1..Len(activeTasks) :
           activeTasks[i] = Null /\ \A j \in 1..(i - 1) : activeTasks[j] # Null
    ELSE 0

\* assignTaskToWorker at time t.
assignTaskToWorker(pl, workerId, task, t) ==
  LET taskId == pl.nextTaskId
      free == FreeSlot(pl.activeTasks)
      grown == IF free = 0 THEN Append(pl.activeTasks, Null) ELSE pl.activeTasks
      slotIndex == IF free = 0 THEN Len(pl.activeTasks) + 1 ELSE free
  IN  [pl EXCEPT
         !.nextTaskId = IF taskId + 1 > TASK_ID_WRAP THEN 0 ELSE taskId + 1,
         !.activeTasks = [grown EXCEPT ![slotIndex] =
                            [workerId |-> workerId, taskId |-> taskId, req |-> task.req,
                             timeoutAt |-> t + pl.workerTimeout]],
         !.workerStatus = U8Inc(@, workerId),
         !.inbox = @ \cup {[path |-> task.path, workerId |-> workerId, taskId |-> taskId]}]

\* The inner loop of processQueue: up to availableSlots tasks go to worker i.
RECURSIVE AssignSlots(_, _, _, _, _)
AssignSlots(pl, i, j, availableSlots, t) ==
  IF j < availableSlots /\ Len(pl.taskQueue) > 0
    THEN AssignSlots(assignTaskToWorker([pl EXCEPT !.taskQueue = Tail(@)], i, Head(pl.taskQueue), t),
                     i, j + 1, availableSlots, t)
    ELSE pl

\* The outer loop of processQueue over the workers.
RECURSIVE AssignWorkers(_, _, _)
AssignWorkers(pl, i, t) ==
  IF i < pl.workers /\ Len(pl.taskQueue) > 0
    THEN IF pl.workerStatus[i] < pl.maxConcurrentTasksPerWorker
           THEN AssignWorkers(AssignSlots(pl, i, 0, pl.maxConcurrentTasksPerWorker - pl.workerStatus[i], t),
                              i + 1, t)
           ELSE AssignWorkers(pl, i + 1, t)
    ELSE pl

NeedsSort(queue) == Len(queue) > 1 /\ \E i \in 1..Len(queue) : queue[i].priority > 0

\* processQueue at time t.
processQueue(pl, t) ==
  IF pl.processing \/ Len(pl.taskQueue) = 0 THEN pl
  ELSE AssignWorkers([pl EXCEPT !.taskQueue = IF NeedsSort(@) THEN TaskSort(@) ELSE @], 0, t)

\* The answers of the existence primitive Bun.file(path).exists().
Answers == {"exists", "absent", "throws"}

\* The worker's onmessage: the message it posts back for a task.
WorkerResult(msg, answer) ==
  IF answer = "exists"
    THEN [path |-> msg.path, error |-> FALSE, workerId |-> msg.workerId, taskId |-> msg.taskId]
    ELSE [path |-> <<>>, error |-> TRUE, workerId |-> msg.workerId, taskId |-> msg.taskId]

\* How a checkPath promise settles: resolved with a path, rejected with an
\* error of class err, or left pending.
Resolved(path) == [settled |-> TRUE, ok |-> TRUE, err |-> "", path |-> path]
Rejected(err) == [settled |-> TRUE, ok |-> FALSE, err |-> err, path |-> <<>>]
Unsettled == [settled |-> FALSE, ok |-> FALSE, err |-> "", path |-> <<>>]

\* What the message handler does to the task's promise when the task is found.
HandlerSettles(result) ==
  IF result.error THEN Rejected("Error")
  ELSE IF Truthy(result.path) THEN Resolved(result.path)
  ELSE Unsettled

\* The handler made by createWorkerMessageHandler(workerId), for `result`.
WorkerMessageHandler(pl, workerId, result) ==
  LET counted == [pl EXCEPT !.workerStatus = U8Dec(@, workerId)]
      taskIndex == findTaskIndex(pl.activeTasks, workerId, result.taskId)
  IN  IF taskIndex = 0 THEN counted
      ELSE [counted EXCEPT !.activeTasks[taskIndex] = Null]

ErrorHandlerMut(pl, workerId) ==
  [pl EXCEPT !.generation[workerId] = @ + 1,
             !.inbox = {m \in @ : m.workerId # workerId},
             !.activeTasks = [i \in 1..Len(@) |-> Null]]

\* The handler of a worker's error event: the worker is terminated, so the
\* messages posted to it are never answered, and a new worker takes its
\* place in this.workers.
ErrorHandler(pl, workerId) ==
  [pl EXCEPT !.generation[workerId] = @ + 1,
             !.inbox = {m \in @ : m.workerId # workerId}]

\* The timeout callback set by assignTaskToWorker, for the task in slot i.
TimeoutHandler(pl, i) ==
  LET task == pl.activeTasks[i]
      taskIndex == findTaskIndex(pl.activeTasks, task.workerId, task.taskId)
  IN  IF taskIndex = 0 THEN pl
      ELSE [pl EXCEPT !.activeTasks[taskIndex] = Null,
                      !.workerStatus = U8Dec(@, task.workerId)]

\* ------------------------------------------------------------------------
\* HyperScalePathResolver: pure parts
\* ------------------------------------------------------------------------
Includes(s, sub) ==
  \E i \in 1..(Len(s) - Len(sub) + 1) : SubSeq(s, i, i + Len(sub) - 1) = sub

\* String.prototype.replace with a global pattern: matches are taken left to
\* right and do not overlap.
RECURSIVE ReplaceAll(_, _, _)
ReplaceAll(s, pat, rep) ==
  IF Len(s) < Len(pat) THEN s
  ELSE IF SubSeq(s, 1, Len(pat)) = pat
    THEN rep \o ReplaceAll(SubSeq(s, Len(pat) + 1, Len(s)), pat, rep)
    ELSE <<Head(s)>> \o ReplaceAll(Tail(s), pat, rep)

RECURSIVE TrimStart(_)
TrimStart(s) == IF s # <<>> /\ Head(s) = " " THEN TrimStart(Tail(s)) ELSE s

RECURSIVE TrimEnd(_)
TrimEnd(s) ==
  IF s # <<>> /\ s[Len(s)] = " " THEN TrimEnd(SubSeq(s, 1, Len(s) - 1)) ELSE s

Trim(s) == TrimEnd(TrimStart(s))

normalizePathMut(path, unsafeAllowTraversal) ==
  IF ~Truthy(path) THEN <<>> ELSE Trim(ReplaceAll(path, <<"/", "/">>, <<"/">>))

normalizePath(path, unsafeAllowTraversal) ==
  IF ~Truthy(path) THEN <<>>
  ELSE IF ~Includes(path, <<".", ".">>) /\ ~Includes(path, <<"/", "/">>) /\ ~Includes(path, <<" ">>)
    THEN path
  ELSE IF unsafeAllowTraversal
    THEN Trim(ReplaceAll(path, <<"/", "/">>, <<"/">>))
    ELSE Trim(ReplaceAll(ReplaceAll(path, <<".", ".">>, <<>>), <<"/", "/">>, <<"/">>))

\* directFileCheck: how its promise settles for an answer of the primitive.
directFileCheck(path, answer) ==
  IF answer = "exists" THEN Resolved(path)
  ELSE IF answer = "absent" THEN Rejected("NotFoundException")
  ELSE Rejected("FileAccessException")

processPathRequestResultMut(res) ==
  IF res.ok THEN [cacheSet |-> TRUE, out |-> "ok", val |-> res.path]
  ELSE IF res.err = "NotFoundException"
    THEN [cacheSet |-> TRUE, out |-> "NotFoundException", val |-> Undefined]
    ELSE [cacheSet |-> TRUE, out |-> "FileAccessException", val |-> Undefined]

\* The try / catch of processPathRequest once the awaited check has settled
\* as `res`: whether cache.set is reached, and how the request settles.
processPathRequestResult(res) ==
  IF res.ok THEN [cacheSet |-> TRUE, out |-> "ok", val |-> res.path]
  ELSE IF res.err = "NotFoundException"
    THEN [cacheSet |-> FALSE, out |-> "NotFoundException", val |-> Undefined]
    ELSE [cacheSet |-> FALSE, out |-> "FileAccessException", val |-> Undefined]

\* The comparator of pendingRequests.sort.
PendingCmp(a, b) ==
  IF b.priority - a.priority # 0 THEN b.priority - a.priority ELSE a.timestamp - b.timestamp

RECURSIVE PendingInsert(_, _)
PendingInsert(s, x) ==
  IF s = <<>> THEN <<x>>
  ELSE IF PendingCmp(Head(s), x) <= 0 THEN <<Head(s)>> \o PendingInsert(Tail(s), x)
  ELSE <<x>> \o s

RECURSIVE PendingSort(_)
PendingSort(s) ==
  IF s = <<>> THEN <<>> ELSE PendingInsert(PendingSort(SubSeq(s, 1, Len(s) - 1)), s[Len(s)])

\* ------------------------------------------------------------------------
\* The configuration of the resolver
\* ------------------------------------------------------------------------
\* DEFAULT_CONFIG, its numbers scaled down (30000, 1500, 15000; 4 to 16
\* workers, 12 tasks per worker, 5000 ms). logErrors, which only switches
\* logging, is left out of configurations.
DEFAULT_CONFIG ==
  [basePath |-> <<>>, cacheTTLMs |-> 2, maxConcurrentChecks |-> 2,
   unsafeAllowTraversal |-> FALSE, maxPendingRequests |-> 2,
   workerPoolOptions |-> [numWorkers |-> 2, maxConcurrentTasksPerWorker |-> 1,
                          workerTimeout |-> 1]]

\* The number NaN, which no comparison accepts.
NaN == -1000000000
IsNaN(value) == value = NaN

ensureTrailingSlash(path) ==
  IF ~Truthy(path) THEN <<"/">>
  ELSE IF path[Len(path)] = "/" THEN path ELSE path \o <<"/">>

\* `config.field !== undefined` for a partial configuration.
Supplied(config, field) == field \in DOMAIN config

\* The numeric setting `field`: the supplied value if it is a number above
\* `floor` (at least `floor`, if orEqual), the default if not.
Numeric(config, field, floor, orEqual, default) ==
  IF /\ Supplied(config, field)
     /\ ~IsNaN(config[field])
     /\ (config[field] > floor \/ (orEqual /\ config[field] = floor))
    THEN config[field]
    ELSE default

validateCriticalConfig(config) ==
  [basePath |-> IF Supplied(config, "basePath")
                  THEN ensureTrailingSlash(config.basePath)
                  ELSE DEFAULT_CONFIG.basePath,
   unsafeAllowTraversal |->
     Supplied(config, "unsafeAllowTraversal") /\ config.unsafeAllowTraversal = TRUE,
   cacheTTLMs |-> Numeric(config, "cacheTTLMs", 0, TRUE, DEFAULT_CONFIG.cacheTTLMs),
   maxConcurrentChecks |->
     Numeric(config, "maxConcurrentChecks", 0, FALSE, DEFAULT_CONFIG.maxConcurrentChecks),
   maxPendingRequests |->
     Numeric(config, "maxPendingRequests", 0, FALSE, DEFAULT_CONFIG.maxPendingRequests),
   workerPoolOptions |->
     IF Supplied(config, "workerPoolOptions")
       THEN [numWorkers |->
               Numeric(config.workerPoolOptions, "numWorkers", 0, FALSE,
                       DEFAULT_CONFIG.workerPoolOptions.numWorkers),
             maxConcurrentTasksPerWorker |->
               Numeric(config.workerPoolOptions, "maxConcurrentTasksPerWorker", 0, FALSE,
                       DEFAULT_CONFIG.workerPoolOptions.maxConcurrentTasksPerWorker),
             workerTimeout |->
               Numeric(config.workerPoolOptions, "workerTimeout", 0, FALSE,
                       DEFAULT_CONFIG.workerPoolOptions.workerTimeout)]
       ELSE DEFAULT_CONFIG.workerPoolOptions]

\* { ...a, ...b }
Spread(a, b) ==
  [field \in DOMAIN a \cup DOMAIN b |-> IF field \in DOMAIN b THEN b[field] ELSE a[field]]

\* updateConfig(config) on a resolver whose configuration is current.
updateConfig(current, config) == validateCriticalConfig(Spread(current, config))

\* ------------------------------------------------------------------------
\* The path utility (src/utils/path), on the POSIX platform
\* ------------------------------------------------------------------------
\* PosixPlatformHandler.maxLength, scaled down from 4096.
MAX_LENGTH_POSIX == 3
MAX_EXTENSION_LENGTH == 10
DEFAULT_EXTENSION == <<"t", "x", "t">>

\* The character "\0".
NullByte == "NUL"

\* The characters /^[a-zA-Z0-9]+$/ accepts, among those the model uses.
AlphaNumeric == {"a", "e", "f", "i", "l", "t", "x", "y"}

\* What the random picks among SPACE_PATHS and YOKAI_ONI_PATHS yield: a
\* path, and a file name without a dot.
SpacePath == <<"/", "s", "/">>
YokaiPath == <<"/", "y">>
YokaiName == <<"y">>

containsNullByte(str) == \E i \in 1..Len(str) : str[i] = NullByte

containsTraversal(str) ==
  \E i \in 1..(Len(str) - 1) :
    /\ str[i] = "."
    /\ str[i + 1] = "."
    /\ (i + 2 > Len(str) \/ str[i + 2] = "/")

isValidExtension(ext) ==
  /\ Len(ext) > 0
  /\ Len(ext) <= MAX_EXTENSION_LENGTH
  /\ \A i \in 1..Len(ext) : ext[i] \in AlphaNumeric

\* String.prototype.lastIndexOf, counting from 1 (0: not found).
LastIndexOf(str, c) ==
  IF \E i \in 1..Len(str) : str[i] = c
  THEN CHOOSE i \in 1..Len(str) : str[i] = c /\ \A j \in (i + 1)..Len(str) : str[j] # c
  ELSE 0

\* input.replace(/\/+/g, "/")
RECURSIVE CollapseSlashes(_)
CollapseSlashes(str) ==
  IF Len(str) < 2 THEN str
  ELSE IF str[1] = "/" /\ str[2] = "/" THEN CollapseSlashes(Tail(str))
       ELSE <<str[1]>> \o CollapseSlashes(Tail(str))

\* A thrown error, and a returned value.
Throw(error) == [ok |-> FALSE, error |-> error]
Return(value) == [ok |-> TRUE, value |-> value]

\* The options the functions are called with: none, or a maxLength.
NoOptions == [trailingSlash |-> TRUE]
WithMaxLength(n) == [trailingSlash |-> TRUE, maxLength |-> n]

validateOptions(options) ==
  LET maxLength == IF "maxLength" \in DOMAIN options THEN options.maxLength
                                                     ELSE MAX_LENGTH_POSIX
  IN  IF maxLength < 1 \/ maxLength > MAX_LENGTH_POSIX
      THEN Throw("PathError")
      ELSE Return([maxLength |-> maxLength])

sanitizePathMut(input, trailingSlash) ==
  IF Len(input) > MAX_LENGTH_POSIX THEN Throw("PathError")
  ELSE IF \A i \in 1..Len(input) : input[i] = " " THEN Return(SpacePath)
  ELSE IF containsTraversal(input) THEN Return(YokaiPath)
  ELSE LET normalized == CollapseSlashes(input)
           result == IF normalized[1] # "/" THEN <<"/">> \o normalized ELSE normalized
       IN  Return(IF trailingSlash /\ result[Len(result)] # "/"
                  THEN result \o <<"/">> ELSE result)

sanitizePath(input, trailingSlash) ==
  IF containsNullByte(input) THEN Throw("SecurityError")
  ELSE IF Len(input) > MAX_LENGTH_POSIX THEN Throw("PathError")
  ELSE IF \A i \in 1..Len(input) : input[i] = " " THEN Return(SpacePath)
  ELSE IF containsTraversal(input) THEN Return(YokaiPath)
  ELSE LET normalized == CollapseSlashes(input)
           result == IF normalized[1] # "/" THEN <<"/">> \o normalized ELSE normalized
       IN  Return(IF trailingSlash /\ result[Len(result)] # "/"
                  THEN result \o <<"/">> ELSE result)

\* Hidden files are allowed (platform.isCaseSensitive), and the buffer is
\* at least twice as long as the file name.
sanitizeFilename(input) ==
  IF containsNullByte(input) THEN Throw("SecurityError")
  ELSE IF containsTraversal(input) THEN Return(YokaiName)
  ELSE LET given == IF input = <<>> THEN <<"f", "i", "l", "e", ".">> \o DEFAULT_EXTENSION
                                    ELSE input
           extIndex == LastIndexOf(given, ".")
           neutralizedInput == IF extIndex = 0 \/ extIndex = Len(given)
                               THEN given \o <<".">> \o DEFAULT_EXTENSION
                               ELSE given
       IN  Return([i \in 1..Len(neutralizedInput) |->
                     IF neutralizedInput[i] = "/" THEN "_" ELSE neutralizedInput[i]])

extractFileComponents(sanitizedBase) ==
  LET extIndex == LastIndexOf(sanitizedBase, ".")
  IN  [baseName |-> IF extIndex > 1 THEN SubSeq(sanitizedBase, 1, extIndex - 1)
                                    ELSE sanitizedBase,
       extension |-> IF extIndex > 1 /\ extIndex < Len(sanitizedBase)
                     THEN SubSeq(sanitizedBase, extIndex + 1, Len(sanitizedBase))
                     ELSE <<>>]

\* The result carries file_path and file_type of buildResult.
parsePathComprehensive(path, filename, options) ==
  LET fullInput == path \o filename
      validated == validateOptions(options)
  IN  IF ~validated.ok THEN validated
      ELSE IF Len(fullInput) > validated.value.maxLength THEN Throw("PathError")
      ELSE LET sanitizedPath == sanitizePath(path, options.trailingSlash)
               sanitizedBase == sanitizeFilename(filename)
           IN  IF ~sanitizedPath.ok THEN sanitizedPath
               ELSE IF ~sanitizedBase.ok THEN sanitizedBase
               ELSE LET parts == extractFileComponents(sanitizedBase.value)
                    IN  IF ~isValidExtension(parts.extension) THEN Throw("PathError")
                        ELSE Return([file_path |-> sanitizedPath.value,
                                     file_type |-> parts.extension])

\* The loop of sanitizePaths from its i-th path on, results holding what
\* the earlier paths gave.
RECURSIVE SanitizeFrom(_, _, _, _, _)
SanitizeFrom(paths, i, results, maxLength, trailingSlash) ==
  IF i > Len(paths) THEN Return(results)
  ELSE IF containsNullByte(paths[i]) THEN Throw("SecurityError")
  ELSE IF Len(paths[i]) > maxLength THEN Throw("PathError")
  ELSE LET sanitized == sanitizePath(paths[i], trailingSlash)
       IN  IF ~sanitized.ok THEN sanitized
           ELSE SanitizeFrom(paths, i + 1, Append(results, sanitized.value),
                             maxLength, trailingSlash)

sanitizePaths(options, paths) ==
  LET validated == validateOptions(options)
  IN  IF ~validated.ok THEN validated
      ELSE SanitizeFrom(paths, 1, <<>>, validated.value.maxLength, options.trailingSlash)

\* ------------------------------------------------------------------------
\* State
\* ------------------------------------------------------------------------
VARIABLES
  now,              \* Date.now()
  shards,           \* SharedPathCache.shards
  stats,            \* SharedPathCache.stats {h, m, e}
  cleanupInterval,  \* whether the cleanup interval is armed
  cacheLog,         \* the last cache operation and what it returned; a get
                    \* also records whether it directly follows a set of
                    \* its key (history)
  config,           \* HyperScalePathResolver.config
  workerPool,       \* whether this.workerPool is a pool (FALSE: null)
  pool,             \* the FileWorkerPool
  activeRequests,
  pendingRequests,
  requestsRejectedDueToOverload,
  isShuttingDown,
  microtasks,       \* the event loop's microtask queue, oldest first
  callerTurn,       \* whether code of a caller runs in the current turn of
                    \* the event loop (and so may run between its microtasks)
  directChecks,     \* the Bun.file(path).exists() promises awaited in-line
  calls,            \* the getWorkingFilePath calls made and how each settled
  parsed            \* the last call of the path utility and its outcome

cacheVars == <<shards, stats, cleanupInterval, cacheLog>>
resolverVars == <<config, workerPool, pool, activeRequests, pendingRequests,
                  requestsRejectedDueToOverload, isShuttingDown, microtasks,
                  directChecks, calls>>
vars == <<now, shards, stats, cleanupInterval, cacheLog, config, workerPool, pool,
          activeRequests, pendingRequests, requestsRejectedDueToOverload,
          isShuttingDown, microtasks, callerTurn, directChecks, calls, parsed>>

NoOp == [op |-> "none"]

\* The counters stay within the model's bound.
StatsInBound(st) == st.h + st.m + st.e <= MaxStat

\* ------------------------------------------------------------------------
\* Inputs
\* ------------------------------------------------------------------------
\* The configurations the resolver is constructed with.
Cfg(maxChecks, maxPending) ==
  [basePath |-> <<"/">>, cacheTTLMs |-> 1, maxConcurrentChecks |-> maxChecks,
   unsafeAllowTraversal |-> FALSE, maxPendingRequests |-> maxPending,
   workerPoolOptions |-> [numWorkers |-> 2, maxConcurrentTasksPerWorker |-> 1,
                          workerTimeout |-> 1]]

Configs == {Cfg(1, 1), Cfg(3, 1)}

\* The paths callers ask for (<<>>: no path) and their priorities.
Paths == {<<>>, <<"a">>, <<"b", " ">>}
Priorities == {0}

\* The keys the cache is driven with directly: normalised paths.
CacheKeys == {<<"b">>, <<"d">>, <<"a", "a">>, <<"a">>}

\* The values of config.cacheTTLMs the cache is driven with directly.
CacheTTLs == {1, Infinity}

\* The state after construction with a configuration of cfgs, the worker
\* pool having been created or not as pools says.
Constructed(cfgs, pools) ==
  /\ now = 0
  /\ shards = [s \in ShardIds |-> <<>>]
  /\ stats = [h |-> 0, m |-> 0, e |-> 0]
  /\ cleanupInterval = TRUE
  /\ cacheLog = NoOp
  /\ config \in cfgs
  /\ workerPool \in pools
  /\ pool = IF workerPool THEN NewPool(config.workerPoolOptions)
                          ELSE TerminatedPool(NewPool(config.workerPoolOptions))
  /\ activeRequests = 0
  /\ pendingRequests = <<>>
  /\ requestsRejectedDueToOverload = 0
  /\ isShuttingDown = FALSE
  /\ microtasks = <<>>
  /\ callerTurn = FALSE
  /\ directChecks = {}
  /\ calls = <<>>
  /\ parsed = NoOp

Init == Constructed(Configs, BOOLEAN)

\* A timer of the pool that is set and not yet due.
TimerAhead ==
  \E i \in 1..Len(pool.activeTasks) :
    pool.activeTasks[i] # Null /\ pool.activeTasks[i].timeoutAt > now

\* Time passes between two turns of the event loop.
Tick ==
  /\ microtasks = <<>>
  /\ now < MaxTime \/ TimerAhead
  /\ now' = now + 1
  /\ callerTurn' = FALSE
  /\ UNCHANGED cacheVars
  /\ UNCHANGED resolverVars
  /\ UNCHANGED parsed

\* The periodic cleanup timer fires; `picks` are the shard indices it draws.
CleanupWith(picks) ==
  /\ cleanupInterval
  /\ microtasks = <<>>
  /\ LET r == CacheCleanup(shards, stats, now, picks) IN
     /\ StatsInBound(r.stats)
     /\ shards' = r.shards
     /\ stats' = r.stats
     /\ cacheLog' = [op |-> "cleanup", removed |-> r.stats.e - stats.e]
  /\ callerTurn' = FALSE
  /\ UNCHANGED <<parsed, now, cleanupInterval>>
  /\ UNCHANGED resolverVars

Cleanup == \E picks \in CleanupPicks : CleanupWith(picks)

\* A direct call of cache.set.
SetCall ==
  /\ \E key \in CacheKeys :
       \E sample \in SetSamples(shards, key) :
         LET r == CacheSet(shards, stats, key, config.basePath \o key,
                           config.cacheTTLMs, now, sample) IN
         /\ StatsInBound(r.stats)
         /\ shards' = r.shards
         /\ stats' = r.stats
         /\ cacheLog' = [op |-> "set", key |-> key, val |-> config.basePath \o key,
                         e |-> Plus(now, config.cacheTTLMs)]
  /\ UNCHANGED <<parsed, now, cleanupInterval, callerTurn>>
  /\ UNCHANGED resolverVars

\* A direct call of cache.get(key).
GetCallOf(key) ==
  /\ LET r == CacheGet(shards, stats, key, now) IN
     /\ StatsInBound(r.stats)
     /\ shards' = r.shards
     /\ stats' = r.stats
     /\ cacheLog' = [op |-> "get", key |-> key, ret |-> r.ret,
                     afterSet |-> cacheLog.op = "set" /\ cacheLog.key = key]
  /\ UNCHANGED <<parsed, now, cleanupInterval, callerTurn>>
  /\ UNCHANGED resolverVars

GetCall == \E key \in CacheKeys : GetCallOf(key)

CacheInit ==
  /\ now = 0
  /\ shards = [s \in ShardIds |-> <<>>]
  /\ stats = [h |-> 0, m |-> 0, e |-> 0]
  /\ cleanupInterval = TRUE
  /\ cacheLog = NoOp
  /\ config \in {[Cfg(1, 1) EXCEPT !.cacheTTLMs = ttl] : ttl \in CacheTTLs}
  /\ workerPool = TRUE
  /\ pool = NewPool(config.workerPoolOptions)
  /\ activeRequests = 0
  /\ pendingRequests = <<>>
  /\ requestsRejectedDueToOverload = 0
  /\ isShuttingDown = FALSE
  /\ microtasks = <<>>
  /\ callerTurn = FALSE
  /\ directChecks = {}
  /\ calls = <<>>
  /\ parsed = NoOp

CacheNext == Tick \/ Cleanup \/ SetCall \/ GetCall

\* SharedPathCache driven through its own operations.
CacheSpec == CacheInit /\ [][CacheNext]_vars

\* ------------------------------------------------------------------------
\* HyperScalePathResolver and FileWorkerPool: the steps
\* ------------------------------------------------------------------------
\* The microtask in which the caller of a settled call reacts to it.
Reaction == [kind |-> "reaction"]

Call(key, out, val) ==
  [key |-> key, out |-> out, val |-> val, via |-> "none", fs |-> "none"]

Settle(req, out, val) == [calls EXCEPT ![req].out = out, ![req].val = val]

\* The synchronous part of processPathRequest for request req, mt being the
\* microtask queue it runs with: the check is started and awaited.
BeginCheck(mt, req, key, priority, cs) ==
  IF workerPool
    THEN /\ pool' = checkPath(pool, config.basePath \o key, req, priority)
         /\ microtasks' = IF ~pool.processing
                            THEN Append(mt, [kind |-> "processQueue"]) ELSE mt
         /\ calls' = [cs EXCEPT ![req].via = "pool"]
         /\ UNCHANGED directChecks
    ELSE /\ directChecks' = directChecks \cup {[req |-> req, path |-> config.basePath \o key]}
         /\ microtasks' = mt
         /\ calls' = [cs EXCEPT ![req].via = "direct"]
         /\ UNCHANGED pool

CacheHitMut(cachedPath) == FALSE

RefusesMut(shuttingDown) == FALSE

\* `if (this.isShuttingDown)` at the top of getWorkingFilePath.
Refuses(shuttingDown) == shuttingDown

RejectPendingMut(cs, pending) == cs

\* shutdown() rejects every request of pendingRequests.
RejectPending(cs, pending) ==
  [r \in 1..Len(cs) |->
     IF \E i \in 1..Len(pending) : pending[i].req = r
       THEN [cs[r] EXCEPT !.out = "ShuttingDown"]
       ELSE cs[r]]

EnterMut(active) == active

\* `this.activeRequests++` on entry to processPathRequest and
\* `this.activeRequests--` in its finally block.
Enter(active) == active + 1
Leave(active) == active - 1

AtCeilingMut(active, cfg) == active > cfg.maxConcurrentChecks

\* `this.activeRequests >= this.config.maxConcurrentChecks`
AtCeiling(active, cfg) == active >= cfg.maxConcurrentChecks

QueueFullMut(pending, cfg) == Len(pending) > cfg.maxPendingRequests

\* `this.pendingRequests.length >= this.config.maxPendingRequests`
QueueFull(pending, cfg) == Len(pending) >= cfg.maxPendingRequests

\* `if (cachedPath) return cachedPath`: the lookup found a usable path.
CacheHit(cachedPath) == cachedPath # Undefined /\ Truthy(cachedPath)

NewReq == Len(calls) + 1

\* getWorkingFilePath after shutdown.
CallShuttingDown(path, priority) ==
  /\ Refuses(isShuttingDown)
  /\ calls' = Append(calls, Call(<<>>, "ShuttingDown", Undefined))
  /\ UNCHANGED <<parsed, now, config, workerPool, pool, activeRequests, pendingRequests,
                 requestsRejectedDueToOverload, isShuttingDown, microtasks, directChecks>>
  /\ UNCHANGED cacheVars

CallNoPathMut(path, priority) ==
  /\ ~Refuses(isShuttingDown)
  /\ ~Truthy(path)
  /\ calls' = Append(calls, Call(<<>>, "NotFoundException", Undefined))
  /\ stats' = [stats EXCEPT !.m = @ + 1]
  /\ UNCHANGED <<parsed, now, config, workerPool, pool, activeRequests, pendingRequests,
                 requestsRejectedDueToOverload, isShuttingDown, microtasks, directChecks>>
  /\ UNCHANGED <<shards, cleanupInterval, cacheLog>>

\* getWorkingFilePath without a path.
CallNoPath(path, priority) ==
  /\ ~Refuses(isShuttingDown)
  /\ ~Truthy(path)
  /\ calls' = Append(calls, Call(<<>>, "NotFoundException", Undefined))
  /\ UNCHANGED <<parsed, now, config, workerPool, pool, activeRequests, pendingRequests,
                 requestsRejectedDueToOverload, isShuttingDown, microtasks, directChecks>>
  /\ UNCHANGED cacheVars

\* getWorkingFilePath past the two checks: the cache is consulted, and on a
\* miss the request is rejected, queued or processed.
CallLookup(path, priority) ==
  /\ ~Refuses(isShuttingDown)
  /\ Truthy(path)
  /\ LET key == normalizePath(path, config.unsafeAllowTraversal)
         g == CacheGet(shards, stats, key, now)
     IN  /\ shards' = g.shards
         /\ stats' = g.stats
         /\ cacheLog' = [op |-> "get", key |-> key, ret |-> g.ret, path |-> path,
                         afterSet |-> cacheLog.op = "set" /\ cacheLog.key = key]
         /\ IF CacheHit(g.ret)
              THEN /\ calls' = Append(calls, Call(key, "ok", g.ret))
                   /\ UNCHANGED <<pool, activeRequests, pendingRequests,
                                  requestsRejectedDueToOverload, microtasks, directChecks>>
            ELSE IF AtCeiling(activeRequests, config)
              THEN IF QueueFull(pendingRequests, config)
                     THEN /\ requestsRejectedDueToOverload' = requestsRejectedDueToOverload + 1
                          /\ calls' = Append(calls, Call(key, "Overloaded", Undefined))
                          /\ UNCHANGED <<pool, activeRequests, pendingRequests,
                                         microtasks, directChecks>>
                     ELSE /\ pendingRequests' =
                               Append(pendingRequests,
                                      [req |-> NewReq, path |-> key, priority |-> priority,
                                       timestamp |-> now])
                          /\ calls' = Append(calls, Call(key, "pending", Undefined))
                          /\ UNCHANGED <<pool, activeRequests, requestsRejectedDueToOverload,
                                         microtasks, directChecks>>
            ELSE /\ activeRequests' = Enter(activeRequests)
                 /\ BeginCheck(microtasks, NewReq, key, priority,
                               Append(calls, Call(key, "pending", Undefined)))
                 /\ UNCHANGED <<pendingRequests, requestsRejectedDueToOverload>>
  /\ UNCHANGED <<parsed, now, cleanupInterval, config, workerPool, isShuttingDown>>

\* A caller calls getWorkingFilePath(path, priority).
\* Code of a caller can run now: in a turn of its own, or between the
\* microtasks of a turn in which code of a caller runs.
CallerCanRun == microtasks = <<>> \/ callerTurn

CallWith(paths, priorities) ==
  /\ Len(calls) < MaxCalls
  /\ now <= MaxTime
  /\ CallerCanRun
  /\ callerTurn' = TRUE
  /\ \E path \in paths, priority \in priorities :
       \/ CallShuttingDown(path, priority)
       \/ CallNoPath(path, priority)
       \/ CallLookup(path, priority)

GetWorkingFilePath == CallWith(Paths, Priorities)

\* The microtask queued by checkPath or by the message handler: processQueue.
RunProcessQueue ==
  /\ microtasks # <<>>
  /\ Head(microtasks).kind = "processQueue"
  /\ microtasks' = Tail(microtasks)
  /\ pool' = processQueue(pool, now)
  /\ UNCHANGED <<parsed, now, callerTurn, config, workerPool, activeRequests, pendingRequests,
                 requestsRejectedDueToOverload, isShuttingDown, directChecks, calls>>
  /\ UNCHANGED cacheVars

\* processPathRequest resumes after its await with the check settled as
\* res: the try or the catch, then the finally.
RunContinuation ==
  /\ microtasks # <<>>
  /\ Head(microtasks).kind = "cont"
  /\ LET m == Head(microtasks)
         r == processPathRequestResult(m.res)
         key == calls[m.req].key
     IN  /\ IF r.cacheSet
              THEN \E sample \in SetSamples(shards, key) :
                     LET c == CacheSet(shards, stats, key, m.res.path,
                                       config.cacheTTLMs, now, sample) IN
                     /\ shards' = c.shards
                     /\ stats' = c.stats
                     /\ cacheLog' = [op |-> "set", key |-> key, val |-> m.res.path,
                                     e |-> Plus(now, config.cacheTTLMs)]
              ELSE UNCHANGED <<shards, stats, cacheLog>>
         /\ calls' = Settle(m.req, r.out, r.val)
         /\ activeRequests' = Leave(activeRequests)
         /\ IF ~isShuttingDown /\ Len(pendingRequests) > 0
              THEN LET sorted == IF NeedsSort(pendingRequests)
                                   THEN PendingSort(pendingRequests) ELSE pendingRequests
                       nextRequest == Head(sorted)
                   IN  /\ pendingRequests' = Tail(sorted)
                       /\ microtasks' = Tail(microtasks)
                            \o <<[kind |-> "start", req |-> nextRequest.req,
                                  path |-> nextRequest.path,
                                  priority |-> nextRequest.priority],
                                 Reaction>>
              ELSE /\ microtasks' = Append(Tail(microtasks), Reaction)
                   /\ UNCHANGED pendingRequests
  /\ UNCHANGED <<parsed, now, callerTurn, cleanupInterval, config, workerPool, pool,
                 requestsRejectedDueToOverload, isShuttingDown, directChecks>>

\* The caller's reaction to a call that settled runs: code of the caller.
RunReaction ==
  /\ microtasks # <<>>
  /\ Head(microtasks).kind = "reaction"
  /\ microtasks' = Tail(microtasks)
  /\ callerTurn' = TRUE
  /\ UNCHANGED <<parsed, now, config, workerPool, pool, activeRequests, pendingRequests,
                 requestsRejectedDueToOverload, isShuttingDown, directChecks, calls>>
  /\ UNCHANGED cacheVars

\* The microtask queued by the finally block: processPathRequest for the
\* request taken from pendingRequests.
RunStart ==
  /\ microtasks # <<>>
  /\ Head(microtasks).kind = "start"
  /\ LET m == Head(microtasks) IN
     IF isShuttingDown
       THEN /\ calls' = Settle(m.req, "FileAccessException", Undefined)
            /\ microtasks' = Append(Tail(microtasks), Reaction)
            /\ UNCHANGED <<activeRequests, pool, directChecks>>
       ELSE /\ activeRequests' = Enter(activeRequests)
            /\ BeginCheck(Tail(microtasks), m.req, m.path, m.priority, calls)
  /\ UNCHANGED <<parsed, now, callerTurn, config, workerPool, pendingRequests,
                 requestsRejectedDueToOverload, isShuttingDown>>
  /\ UNCHANGED cacheVars

\* A worker answers the message msg with the primitive's answer; the
\* message handler of its worker id runs.
WorkerMessage(msg, answer) ==
  /\ microtasks = <<>>
  /\ msg \in pool.inbox
  /\ LET result == WorkerResult(msg, answer)
         taskIndex == findTaskIndex(pool.activeTasks, msg.workerId, result.taskId)
         handled == WorkerMessageHandler(pool, msg.workerId, result)
     IN  /\ pool' = [handled EXCEPT !.inbox = @ \ {msg}]
         /\ IF taskIndex = 0
              THEN UNCHANGED <<microtasks, calls>>
              ELSE LET req == pool.activeTasks[taskIndex].req
                       res == HandlerSettles(result)
                   IN  /\ microtasks' =
                            (IF Len(pool.taskQueue) > 0
                               THEN <<[kind |-> "processQueue"]>> ELSE <<>>)
                            \o (IF res.settled
                                  THEN <<[kind |-> "cont", req |-> req, res |-> res]>>
                                  ELSE <<>>)
                       /\ calls' = [calls EXCEPT ![req].fs = answer]
  /\ callerTurn' = FALSE
  /\ UNCHANGED <<parsed, now, config, workerPool, activeRequests, pendingRequests,
                 requestsRejectedDueToOverload, isShuttingDown, directChecks>>
  /\ UNCHANGED cacheVars

WorkerAnswers == \E msg \in pool.inbox, answer \in Answers : WorkerMessage(msg, answer)

\* The timeout set by assignTaskToWorker for the task in slot i fires.
TaskTimeout(i) ==
  /\ microtasks = <<>>
  /\ i \in 1..Len(pool.activeTasks)
  /\ pool.activeTasks[i] # Null
  /\ now >= pool.activeTasks[i].timeoutAt
  /\ pool' = TimeoutHandler(pool, i)
  /\ microtasks' = <<[kind |-> "cont", req |-> pool.activeTasks[i].req,
                      res |-> Rejected("Error")]>>
  /\ callerTurn' = FALSE
  /\ UNCHANGED <<parsed, now, config, workerPool, activeRequests, pendingRequests,
                 requestsRejectedDueToOverload, isShuttingDown, directChecks, calls>>
  /\ UNCHANGED cacheVars

TaskTimesOut == \E i \in 1..Len(pool.activeTasks) : TaskTimeout(i)

\* Worker w raises an error event.
WorkerError(w) ==
  /\ microtasks = <<>>
  /\ w \in DOMAIN pool.generation
  /\ pool.generation[w] < MaxCrashes
  /\ pool' = ErrorHandler(pool, w)
  /\ callerTurn' = FALSE
  /\ UNCHANGED <<parsed, now, config, workerPool, activeRequests, pendingRequests,
                 requestsRejectedDueToOverload, isShuttingDown, microtasks,
                 directChecks, calls>>
  /\ UNCHANGED cacheVars

WorkerErrors == \E w \in DOMAIN pool.generation : WorkerError(w)

\* The in-line Bun.file(path).exists() of directFileCheck answers.
DirectAnswer(d, answer) ==
  /\ d \in directChecks
  /\ directChecks' = directChecks \ {d}
  /\ microtasks' = Append(microtasks, [kind |-> "cont", req |-> d.req,
                                       res |-> directFileCheck(d.path, answer)])
  /\ calls' = [calls EXCEPT ![d.req].fs = answer]
  /\ UNCHANGED <<parsed, now, callerTurn, config, workerPool, pool, activeRequests, pendingRequests,
                 requestsRejectedDueToOverload, isShuttingDown>>
  /\ UNCHANGED cacheVars

DirectAnswers == \E d \in directChecks, answer \in Answers : DirectAnswer(d, answer)

\* shutdown(), with FileWorkerPool.terminate() and SharedPathCache.dispose().
Shutdown ==
  /\ CallerCanRun
  /\ callerTurn' = TRUE
  /\ isShuttingDown' = TRUE
  /\ workerPool' = FALSE
  /\ pool' = IF workerPool THEN TerminatedPool(pool) ELSE pool
  /\ cleanupInterval' = FALSE
  /\ shards' = CacheDispose(shards)
  /\ cacheLog' = [op |-> "dispose", again |-> isShuttingDown]
  /\ calls' = RejectPending(calls, pendingRequests)
  /\ pendingRequests' = <<>>
  /\ UNCHANGED <<parsed, now, stats, config, activeRequests, requestsRejectedDueToOverload,
                 microtasks, directChecks>>

Next ==
  \/ Tick
  \/ Cleanup
  \/ GetWorkingFilePath
  \/ RunProcessQueue
  \/ RunContinuation
  \/ RunStart
  \/ RunReaction
  \/ WorkerAnswers
  \/ TaskTimesOut
  \/ DirectAnswers
  \/ Shutdown

Spec == Init /\ [][Next]_vars

\* The resolver with its worker pool when the existence primitive never
\* answers: no worker ever posts a result. Microtasks and due timers run,
\* and time passes; callers call when they like.
SilentInit == Init /\ workerPool

SilentNext ==
  \/ Tick
  \/ GetWorkingFilePath
  \/ RunProcessQueue
  \/ RunContinuation
  \/ RunStart
  \/ RunReaction
  \/ TaskTimesOut

SilentSpec ==
  /\ SilentInit
  /\ [][SilentNext]_vars
  /\ WF_vars(Tick)
  /\ WF_vars(RunProcessQueue)
  /\ WF_vars(RunContinuation)
  /\ WF_vars(RunStart)
  /\ WF_vars(RunReaction)
  /\ WF_vars(TaskTimesOut)

\* The resolver with a worker pool whose workers may raise error events.
\* Microtasks and due timers run and time passes; workers answer, workers
\* fail and callers call when they like.
CrashConfig == Cfg(2, 1)
CrashPaths == {<<"a">>}

CrashInit == Constructed({CrashConfig}, {TRUE})

CrashCall == CallWith(CrashPaths, Priorities)

CrashNext ==
  \/ Tick
  \/ CrashCall
  \/ RunProcessQueue
  \/ RunContinuation
  \/ RunStart
  \/ RunReaction
  \/ WorkerAnswers
  \/ TaskTimesOut
  \/ WorkerErrors

CrashSpec ==
  /\ CrashInit
  /\ [][CrashNext]_vars
  /\ WF_vars(Tick)
  /\ WF_vars(RunProcessQueue)
  /\ WF_vars(RunContinuation)
  /\ WF_vars(RunStart)
  /\ WF_vars(RunReaction)
  /\ WF_vars(TaskTimesOut)

\* normalizePath on every short path: the resolver without a worker pool,
\* constructed with no base path, with "/" or with "../", in safe or in
\* unsafe mode, and called once.
PathChars == {".", "/", " ", "a"}
AllPaths == UNION {[1..n -> PathChars] : n \in 0..MaxLen}
BasePaths == {<<>>, <<"/">>, <<".", ".", "/">>}
PathConfigs ==
  {[Cfg(1, 1) EXCEPT !.basePath = base, !.unsafeAllowTraversal = unsafe] :
     base \in BasePaths, unsafe \in BOOLEAN}

PathInit == Constructed(PathConfigs, {FALSE})

PathCall == calls = <<>> /\ CallWith(AllPaths, Priorities)

PathNext ==
  \/ PathCall
  \/ DirectAnswers
  \/ RunContinuation
  \/ RunReaction

PathSpec == PathInit /\ [][PathNext]_vars

\* The admission queue alone: the resolver without a worker pool, one check
\* at a time and a queue of two, callers giving priorities of every sign.
QueueConfig == Cfg(1, 2)
QueuePaths == {<<"a">>, <<"b", " ">>}
QueuePriorities == {-1, 0, 1}

QueueInit == Constructed({QueueConfig}, {FALSE})

PriorityCall == CallWith(QueuePaths, QueuePriorities)

QueueNext ==
  \/ Tick
  \/ PriorityCall
  \/ RunContinuation
  \/ RunStart
  \/ RunReaction
  \/ DirectAnswers

QueueSpec == QueueInit /\ [][QueueNext]_vars

\* ------------------------------------------------------------------------
\* The path utility called with every short path, file name and maxLength
\* ------------------------------------------------------------------------
ParseChars == {"a", ".", "/", NullByte}
ParsePaths == UNION {[1..n -> ParseChars] : n \in 0..MaxLen}
Filenames == {<<>>, <<"a">>, <<"a", ".", "/">>, <<".", ".">>, <<NullByte>>}
ParseOptions == {NoOptions} \cup {WithMaxLength(n) : n \in {0, 2, MAX_LENGTH_POSIX + 1}}
PathLists == UNION {[1..n -> UNION {[1..m -> {"a", NullByte}] : m \in 0..MaxLen}] : n \in 1..2}

ParseInit == Constructed({Cfg(1, 1)}, {FALSE})

ParsePathComprehensive ==
  /\ parsed = NoOp
  /\ \E path \in ParsePaths, filename \in Filenames, options \in ParseOptions :
       parsed' = [op |-> "parsePathComprehensive", path |-> path, filename |-> filename,
                  options |-> options,
                  outcome |-> parsePathComprehensive(path, filename, options)]
  /\ UNCHANGED <<now, callerTurn>>
  /\ UNCHANGED cacheVars
  /\ UNCHANGED resolverVars

SanitizePaths ==
  /\ parsed = NoOp
  /\ \E paths \in PathLists, options \in ParseOptions :
       parsed' = [op |-> "sanitizePaths", paths |-> paths, options |-> options,
                  outcome |-> sanitizePaths(options, paths)]
  /\ UNCHANGED <<now, callerTurn>>
  /\ UNCHANGED cacheVars
  /\ UNCHANGED resolverVars

ParseNext == ParsePathComprehensive \/ SanitizePaths

ParseSpec == ParseInit /\ [][ParseNext]_vars

\* ------------------------------------------------------------------------
\* The worker pool with one worker and one slot, driven with priorities
\* ------------------------------------------------------------------------
PoolQueueConfig ==
  [Cfg(3, 1) EXCEPT !.workerPoolOptions =
     [numWorkers |-> 1, maxConcurrentTasksPerWorker |-> 1, workerTimeout |-> 1]]

PoolQueueInit == Constructed({PoolQueueConfig}, {TRUE})

PoolQueueCall == CallWith({<<"a">>}, QueuePriorities)

PoolQueueNext ==
  \/ Tick
  \/ PoolQueueCall
  \/ RunProcessQueue
  \/ RunContinuation
  \/ RunReaction
  \/ WorkerAnswers
  \/ TaskTimesOut

PoolQueueSpec == PoolQueueInit /\ [][PoolQueueNext]_vars

\* ------------------------------------------------------------------------
\* The resolver with responsive workers, shut down at any moment
\* ------------------------------------------------------------------------
\* Microtasks and due timers run, time passes and workers answer; callers
\* call, and call shutdown(), when they like.
ShutdownNext ==
  \/ Tick
  \/ CrashCall
  \/ RunProcessQueue
  \/ RunContinuation
  \/ RunStart
  \/ RunReaction
  \/ WorkerAnswers
  \/ TaskTimesOut
  \/ Shutdown

ShutdownSpec ==
  /\ CrashInit
  /\ [][ShutdownNext]_vars
  /\ WF_vars(Tick)
  /\ WF_vars(RunProcessQueue)
  /\ WF_vars(RunContinuation)
  /\ WF_vars(RunStart)
  /\ WF_vars(RunReaction)
  /\ WF_vars(WorkerAnswers)
  /\ WF_vars(TaskTimesOut)

\* ------------------------------------------------------------------------
\* The resolver without a worker pool, reconfigured at any moment
\* ------------------------------------------------------------------------
\* The configurations the resolver is constructed with (none, or some
\* settings), and the arguments of updateConfig.
NoConfig == [field \in {} |-> 0]
InitialConfigs ==
  {NoConfig, [basePath |-> <<"b">>, cacheTTLMs |-> 1, maxConcurrentChecks |-> 1]}
Updates ==
  {[basePath |-> <<"c">>], [cacheTTLMs |-> 0], [cacheTTLMs |-> NaN],
   [maxConcurrentChecks |-> -1], [unsafeAllowTraversal |-> TRUE],
   [workerPoolOptions |-> [numWorkers |-> 1]]}

ReconfigInit == Constructed({validateCriticalConfig(c) : c \in InitialConfigs}, {FALSE})

\* A caller calls updateConfig(update), or getInstance(update) on the
\* existing instance.
UpdateConfigWith(update) ==
  /\ CallerCanRun
  /\ callerTurn' = TRUE
  /\ config' = updateConfig(config, update)
  /\ UNCHANGED <<parsed, now, workerPool, pool, activeRequests, pendingRequests,
                 requestsRejectedDueToOverload, isShuttingDown, microtasks,
                 directChecks, calls>>
  /\ UNCHANGED cacheVars

UpdateConfig == \E update \in Updates : UpdateConfigWith(update)

ReconfigNext ==
  \/ CrashCall
  \/ RunContinuation
  \/ RunStart
  \/ RunReaction
  \/ DirectAnswers
  \/ UpdateConfig

ReconfigSpec == ReconfigInit /\ [][ReconfigNext]_vars

\* ------------------------------------------------------------------------
\* Claims about SharedPathCache (checked under CacheSpec)
\* ------------------------------------------------------------------------

\* An entry of shard `shard` whose expiry time has passed at time t.
HoldsExpired(shard, t) == \E i \in 1..Len(shard) : t > shard[i].e

\* C7 as stated: when a run of the periodic cleanup has completed, no shard
\* holds an entry whose expiry time had passed when the run started.
C7_NoEntryOutlivesCleanup ==
  [][Cleanup => \A s \in ShardIds : ~HoldsExpired(shards'[s], now)]_vars

\* C7 amended: when a run of the periodic cleanup has completed, no shard
\* that the run drew holds an entry whose expiry time had passed when the
\* run started.
C7_ScannedShardsPurged ==
  [][\A picks \in CleanupPicks :
       CleanupWith(picks) =>
         \A i \in 1..Len(picks) : ~HoldsExpired(shards'[picks[i]], now)]_vars

\* A cleanup has removed an expired entry.
C7_Witness == cacheLog.op = "cleanup" /\ cacheLog.removed > 0

\* C8: every shard holds at most SHARD_SIZE entries after every set().
C8_CapacityInvariant == \A s \in ShardIds : Len(shards[s]) <= SHARD_SIZE

\* C9: a get(k) directly after set(k, v, ttl) returns v while the expiry
\* time set-time + ttl has not passed and undefined once it has; and no
\* get returns the value of an entry whose expiry time has passed.
C9_GetAfterSet ==
  [][\A key \in CacheKeys :
       GetCallOf(key) =>
         /\ (cacheLog.op = "set" /\ cacheLog.key = key) =>
              cacheLog'.ret = (IF now > cacheLog.e THEN Undefined ELSE cacheLog.val)
         /\ cacheLog'.ret # Undefined =>
              \E i \in 1..Len(shards[getShard(key)]) :
                /\ shards[getShard(key)][i].k = key
                /\ shards[getShard(key)][i].p = cacheLog'.ret
                /\ ~(now > shards[getShard(key)][i].e)]_vars

\* A get directly after a set of its key found the TTL elapsed.
C9_Witness ==
  /\ cacheLog.op = "get" /\ cacheLog.afterSet /\ cacheLog.ret = Undefined
  /\ stats.e > 0


\* ------------------------------------------------------------------------
\* Claims about HyperScalePathResolver and FileWorkerPool
\* ------------------------------------------------------------------------
Reqs == 1..Len(calls)

Failures == {"NotFoundException", "FileAccessException", "Overloaded", "ShuttingDown"}

\* C1: the number of requests being processed never exceeds
\* maxConcurrentChecks.
C1_ActiveWithinCeiling == activeRequests <= config.maxConcurrentChecks

\* C2: every worker's tracked in-flight count stays within
\* 0..maxConcurrentTasksPerWorker.
C2_WorkerStatusInRange ==
  \A w \in DOMAIN pool.workerStatus :
    0 <= pool.workerStatus[w] /\ pool.workerStatus[w] <= pool.maxConcurrentTasksPerWorker

\* C3: a result message for a task that is no longer tracked (it timed out)
\* is dropped: it changes no call's outcome, no worker's in-flight count and
\* no other task's bookkeeping.
C3_LateResultDropped ==
  [][\A msg \in pool.inbox, answer \in Answers :
       (WorkerMessage(msg, answer)
          /\ findTaskIndex(pool.activeTasks, msg.workerId, msg.taskId) = 0)
       => /\ calls' = calls
          /\ microtasks' = microtasks
          /\ pool'.workerStatus = pool.workerStatus
          /\ pool'.activeTasks = pool.activeTasks
          /\ pool'.taskQueue = pool.taskQueue]_vars

\* C4: when the existence primitive never answers, every call handed to the
\* worker pool eventually fails instead of staying pending.
HandedToPool(r) == IF r \in Reqs THEN calls[r].via = "pool" ELSE FALSE

Failed(r) == IF r \in Reqs THEN calls[r].out \in Failures ELSE FALSE

C4_PooledCallFails ==
  \A r \in 1..MaxCalls : HandedToPool(r) ~> Failed(r)

\* C5: with the worker pool, when the worker reports that the path does not
\* exist, checkPath rejects with NotFoundException and so does
\* getWorkingFilePath.
C5_AbsentIsNotFound ==
  /\ \A r \in Reqs :
       calls[r].via = "pool" /\ calls[r].fs = "absent" /\ calls[r].out # "pending"
         => calls[r].out = "NotFoundException"
  /\ \A i \in 1..Len(microtasks) :
       (microtasks[i].kind = "cont"
          /\ calls[microtasks[i].req].via = "pool"
          /\ calls[microtasks[i].req].fs = "absent")
         => microtasks[i].res.err = "NotFoundException"

\* How a call for key settles in the in-line fallback for an answer of the
\* existence primitive.
DirectOutcome(key, answer) ==
  processPathRequestResult(directFileCheck(config.basePath \o key, answer))

\* C6: for every answer of the existence primitive, a call settles through
\* the worker pool as it does through the in-line fallback.
C6_PoolMatchesDirect ==
  \A r \in Reqs :
    calls[r].fs # "none" /\ calls[r].out # "pending"
      => /\ calls[r].out = DirectOutcome(calls[r].key, calls[r].fs).out
         /\ calls[r].val = DirectOutcome(calls[r].key, calls[r].fs).val

\* The entries of a shard as a set.
Entries(shard) == {shard[i] : i \in 1..Len(shard)}

\* C10: a failed resolution never populates the cache. A step in which a
\* call fails adds and changes no cache entry, and every entry a step adds
\* or changes is the path of the call that succeeds in that step, after the
\* existence check answered that the path exists.
C10_FailureNeverCached ==
  [][/\ (\E r \in Reqs : calls[r].out = "pending" /\ calls'[r].out \in Failures)
          => \A s \in ShardIds : Entries(shards'[s]) \subseteq Entries(shards[s])
     /\ \A s \in ShardIds :
          \A entry \in Entries(shards'[s]) \ Entries(shards[s]) :
            \E r \in Reqs :
              /\ calls[r].out = "pending" /\ calls'[r].out = "ok"
              /\ calls[r].fs = "exists"
              /\ calls[r].key = entry.k /\ calls'[r].val = entry.p]_vars

\* C10 as stated: once a call that went to the existence check has failed,
\* the cache holds no entry for its key.
C10_NoEntryAfterFailure ==
  [][\A r \in Reqs :
       calls[r].out = "pending" /\ calls'[r].out \in Failures /\ calls[r].via # "none"
         => IndexOf(shards'[getShard(calls[r].key)], calls[r].key) = 0]_vars

\* A call failed after a fresh check, and a later call for the same key made
\* a fresh check of its own, succeeded and populated the cache.
C10_Witness ==
  \E r1, r2 \in Reqs :
    /\ r1 < r2
    /\ calls[r1].key = calls[r2].key
    /\ calls[r1].out \in {"NotFoundException", "FileAccessException"}
    /\ calls[r1].fs \in {"absent", "throws"}
    /\ calls[r2].out = "ok" /\ calls[r2].fs = "exists"
    /\ IndexOf(shards[getShard(calls[r2].key)], calls[r2].key) # 0

\* The cache holds an entry for key that has not expired at time t.
Cached(key, t) ==
  \E entry \in Entries(shards[getShard(key)]) : entry.k = key /\ t <= entry.e

\* C11: a getWorkingFilePath call for a path that an earlier, completed call
\* resolved, made while the entry is in the cache and has not expired,
\* returns the same path from the cache: one more hit, activeRequests and
\* pendingRequests untouched, neither the worker pool nor the in-line check
\* invoked.
C11_SecondCallFromCache ==
  [][\A path \in Paths, priority \in Priorities :
       \A r \in Reqs :
         (/\ CallLookup(path, priority)
          /\ calls[r].key = normalizePath(path, config.unsafeAllowTraversal)
          /\ calls[r].out = "ok"
          /\ Cached(calls[r].key, now))
         => /\ calls'[NewReq].out = "ok"
            /\ calls'[NewReq].val = calls[r].val
            /\ stats'.h = stats.h + 1
            /\ activeRequests' = activeRequests
            /\ pendingRequests' = pendingRequests
            /\ pool' = pool
            /\ directChecks' = directChecks
            /\ microtasks' = microtasks]_vars

\* A call was resolved by an existence check and a later call for the same
\* key was served from the cache.
C11_Witness ==
  \E r1, r2 \in Reqs :
    /\ r1 < r2
    /\ calls[r1].key = calls[r2].key
    /\ calls[r1].out = "ok" /\ calls[r1].via # "none"
    /\ calls[r2].out = "ok" /\ calls[r2].via = "none"
    /\ calls[r2].val = calls[r1].val
    /\ stats.h > 0
\* s is a prefix of t.
IsPrefix(s, t) == Len(s) <= Len(t) /\ SubSeq(t, 1, Len(s)) = s

\* C12: pendingRequests never holds more than maxPendingRequests requests,
\* and a getWorkingFilePath call leaves every queued request in the queue,
\* in its place: the bound is kept by rejecting the arriving request.
C12_PendingWithinBound ==
  /\ [](Len(pendingRequests) <= config.maxPendingRequests)
  /\ [][\A path \in Paths, priority \in Priorities :
          CallLookup(path, priority) => IsPrefix(pendingRequests, pendingRequests')]_vars

\* The queue is full, and a call that arrived at the full queue was
\* rejected while the queued request stayed.
C12_Witness ==
  /\ Len(pendingRequests) = config.maxPendingRequests
  /\ \E r1, r2 \in Reqs :
       /\ r1 < r2
       /\ pendingRequests[1].req = r1
       /\ calls[r1].out = "pending"
       /\ calls[r2].out = "Overloaded"

\* The number of calls rejected for overload.
OverloadedCalls == Cardinality({r \in Reqs : calls[r].out = "Overloaded"})

\* Every call so far missed the cache and none has completed: a burst.
Burst == \A r \in Reqs : calls[r].out \in {"pending", "Overloaded"}

Max(a, b) == IF a >= b THEN a ELSE b

\* C13: a cache-missing call is rejected for overload exactly when it
\* arrives with activeRequests >= maxConcurrentChecks and the queue holding
\* maxPendingRequests requests, and no other call is; so of n calls in a
\* burst, those beyond maxConcurrentChecks + maxPendingRequests are
\* rejected and no others.
C13_OverloadExactly ==
  /\ [][/\ \A path \in Paths, priority \in Priorities :
            CallLookup(path, priority) =>
              LET key == normalizePath(path, config.unsafeAllowTraversal)
                  full == /\ ~Cached(key, now)
                          /\ activeRequests >= config.maxConcurrentChecks
                          /\ Len(pendingRequests) >= config.maxPendingRequests
              IN  /\ (calls'[NewReq].out = "Overloaded") <=> full
                  /\ requestsRejectedDueToOverload' =
                       requestsRejectedDueToOverload + (IF full THEN 1 ELSE 0)
          /\ \A r \in Reqs : calls'[r].out = "Overloaded" => calls[r].out = "Overloaded"]_vars
  /\ [](Burst => OverloadedCalls =
                   Max(0, Len(calls) - config.maxConcurrentChecks
                                     - config.maxPendingRequests))

\* A burst of calls at the ceiling with a full queue: exactly one of them
\* was rejected for overload, the others are active or queued.
C13_Witness ==
  /\ Burst
  /\ Len(calls) = config.maxConcurrentChecks + config.maxPendingRequests + 1
  /\ OverloadedCalls = 1
  /\ activeRequests = config.maxConcurrentChecks
  /\ Len(pendingRequests) = config.maxPendingRequests
  /\ requestsRejectedDueToOverload = 1
\* The request a step removes from pendingRequests, the step removing one.
Dequeued(x) ==
  /\ Len(pendingRequests') = Len(pendingRequests) - 1
  /\ \E i \in 1..Len(pendingRequests) : pendingRequests[i] = x
  /\ \A i \in 1..Len(pendingRequests') : pendingRequests'[i].req # x.req

\* C14: the request a completing request takes from pendingRequests has
\* the highest priority of the queued requests and, among those of its
\* priority, was enqueued first.
C14_DequeueByPriority ==
  [][\A i, j \in 1..Len(pendingRequests) :
       Dequeued(pendingRequests[i])
         => /\ pendingRequests[j].priority <= pendingRequests[i].priority
            /\ pendingRequests[j].priority = pendingRequests[i].priority
                 => pendingRequests[i].req <= pendingRequests[j].req]_vars
\* The processPathRequest invocations that have started and not finished:
\* the calls that went to the existence check and have not settled.
InProcess == {r \in Reqs : calls[r].via # "none" /\ calls[r].out = "pending"}

\* C15: activeRequests is never negative and is the number of
\* processPathRequest invocations that have started and not finished.
C15_CounterIntegrity ==
  /\ activeRequests >= 0
  /\ activeRequests = Cardinality(InProcess)

\* One request has left processPathRequest with success, one with failure
\* and one is inside it.
C15_Witness ==
  /\ activeRequests = 1
  /\ \E r1, r2, r3 \in Reqs :
       /\ calls[r1].via # "none" /\ calls[r1].out = "ok"
       /\ calls[r2].via # "none" /\ calls[r2].out \in Failures
       /\ r3 \in InProcess
\* The step is a getWorkingFilePath call: the call is recorded.
Called == Len(calls') = Len(calls) + 1

\* C16: once shutdown() has been called, a getWorkingFilePath call fails at
\* once with the shutting-down error whatever its argument, and touches
\* neither the cache nor the admission queue nor the worker pool.
C16_RefusedAfterShutdown ==
  [][isShuttingDown /\ Called
       => /\ calls'[NewReq].out = "ShuttingDown"
          /\ \A r \in Reqs : calls'[r] = calls[r]
          /\ UNCHANGED <<shards, stats, pendingRequests, activeRequests, pool,
                         requestsRejectedDueToOverload, microtasks, directChecks>>]_vars

\* A call made after shutdown() was refused; it never got a key.
C16_Witness ==
  /\ isShuttingDown
  /\ \E r \in Reqs :
       /\ calls[r].out = "ShuttingDown"
       /\ calls[r].key = <<>>
       /\ calls[r].via = "none"

\* The calls that wait in pendingRequests.
Queued == {pendingRequests[i].req : i \in 1..Len(pendingRequests)}

\* The call has not settled and has not started its existence check.
NotStarted(r) == calls[r].via = "none" /\ calls[r].out = "pending"

\* The call was taken from pendingRequests by a finally block whose
\* microtask has not run yet.
Dequeuing(r) ==
  \E i \in 1..Len(microtasks) : microtasks[i].kind = "start" /\ microtasks[i].req = r

\* C17: shutdown() rejects every request that is in pendingRequests and
\* empties the queue; afterwards no request is queued or left unsettled
\* without having started (but for the one a finally block has just taken
\* from the queue, which the next microtask settles), a rejected request
\* stays rejected, and no request that had not started its check starts one.
C17_ShutdownRejectsQueued ==
  /\ [](isShuttingDown => pendingRequests = <<>>)
  /\ [](isShuttingDown => \A r \in Reqs : ~NotStarted(r) \/ Dequeuing(r))
  /\ [][/\ (~isShuttingDown /\ isShuttingDown')
            => \A r \in Queued : calls'[r].out = "ShuttingDown"
        /\ isShuttingDown
            => \A r \in Reqs :
                 /\ (calls[r].via = "none" => calls'[r].via = "none")
                 /\ (calls[r].out = "ShuttingDown" => calls'[r] = calls[r])
                 /\ (Dequeuing(r) /\ ~Dequeuing(r)' => calls'[r].out \in Failures)]_vars

\* shutdown() was called while a request was queued: the request is
\* rejected and the queue empty.
C17_Witness ==
  /\ isShuttingDown
  /\ pendingRequests = <<>>
  /\ \E r \in Reqs :
       /\ calls[r].out = "ShuttingDown"
       /\ calls[r].key # <<>>
       /\ calls[r].via = "none"
\* terminate() on a pool that terminate() has already been called on.
TerminatedAgain(pl) == TerminatedPool(TerminatedPool(pl))

\* C18: terminate() and shutdown() are idempotent. terminate() on a
\* terminated pool leaves the pool as the first call left it; a shutdown()
\* after the first one settles no promise, and leaves the flag set, the
\* pool gone and terminated, the queue and the cache empty and the cleanup
\* interval cleared, as the first call left them.
C18_ShutdownIdempotent ==
  /\ [](TerminatedAgain(pool) = TerminatedPool(pool))
  /\ [][isShuttingDown /\ Shutdown
         => /\ isShuttingDown' /\ ~workerPool' /\ ~cleanupInterval'
            /\ pool = TerminatedPool(pool) /\ pool' = pool
            /\ pendingRequests = <<>> /\ pendingRequests' = <<>>
            /\ \A s \in ShardIds : shards'[s] = <<>>
            /\ UNCHANGED <<calls, activeRequests, stats, config, microtasks,
                           directChecks, requestsRejectedDueToOverload>>]_vars

\* shutdown() has run a second time, after a request that was in flight
\* at the first one had completed and populated the cache.
C18_Witness ==
  /\ isShuttingDown
  /\ cacheLog.op = "dispose" /\ cacheLog.again
  /\ \E r \in Reqs : calls[r].out = "ok" /\ calls[r].via = "direct"
\* The worker ids of the pool.
WorkerIds == DOMAIN pool.generation

\* The tasks in flight on worker w: their slots in activeTasks.
SlotsOf(w) ==
  {i \in 1..Len(pool.activeTasks) :
     IF pool.activeTasks[i] = Null THEN FALSE ELSE pool.activeTasks[i].workerId = w}

\* Call r is in flight on a worker that will not answer it: its task has a
\* slot, and the message posted for it went to a worker that failed.
LostInFlight(r) ==
  \E i \in 1..Len(pool.activeTasks) :
    IF pool.activeTasks[i] = Null THEN FALSE
    ELSE /\ pool.activeTasks[i].req = r
         /\ \A m \in pool.inbox : m.taskId # pool.activeTasks[i].taskId

AccessError(r) == IF r \in Reqs THEN calls[r].out = "FileAccessException" ELSE FALSE

DotDot == <<".", ".">>

\* The full paths the resolver has in hand: those being checked, in-line or
\* by the pool, and those the cache holds.
FullPaths ==
  {d.path : d \in directChecks}
    \cup {m.path : m \in pool.inbox}
    \cup {pool.taskQueue[i].path : i \in 1..Len(pool.taskQueue)}
    \cup UNION {{entry.p : entry \in Entries(shards[s])} : s \in ShardIds}

\* The normalised keys the resolver has in hand.
Keys ==
  {calls[r].key : r \in Reqs}
    \cup UNION {{entry.k : entry \in Entries(shards[s])} : s \in ShardIds}

\* C20 as stated: in safe mode no key and no full path that is checked or
\* cached contains "..".
C20_NoParentSegment ==
  ~config.unsafeAllowTraversal
    => /\ \A key \in Keys : ~Includes(key, DotDot)
       /\ \A full \in FullPaths : ~Includes(full, DotDot)

\* C20, amended: in safe mode no key contains "..", and a full path that is
\* checked or cached contains ".." only if the configured basePath does.
C20_KeyHasNoParentSegment ==
  ~config.unsafeAllowTraversal
    => /\ \A key \in Keys : ~Includes(key, DotDot)
       /\ \A full \in FullPaths :
            Includes(full, DotDot) => Includes(config.basePath, DotDot)

\* A path with ".." was asked for in safe mode; its key has no ".." and the
\* full path made of it is being checked.
C20_Witness ==
  /\ ~config.unsafeAllowTraversal
  /\ cacheLog.op = "get"
  /\ Includes(cacheLog.path, DotDot)
  /\ ~Includes(cacheLog.key, DotDot)
  /\ \E d \in directChecks : d.path = config.basePath \o cacheLog.key
SlashSlash == <<"/", "/">>

\* C21: in safe and in unsafe mode, no key that normalizePath returns holds
\* two consecutive "/".
C21_NoDoubleSeparator == \A key \in Keys : ~Includes(key, SlashSlash)
\* The argument of a call without a path: undefined or the empty string.
NoPath == <<>>

\* C22: before shutdown, a getWorkingFilePath call without a path fails at
\* once with NotFoundException and changes nothing else: the cache and its
\* counters, activeRequests, pendingRequests, the rejected counter and the
\* worker pool stay as they are.
C22_NoPathIsNotFound ==
  [][~isShuttingDown /\ CallWith({NoPath}, Priorities)
       => /\ calls'[NewReq].out = "NotFoundException"
          /\ \A r \in Reqs : calls'[r] = calls[r]
          /\ UNCHANGED <<shards, stats, cacheLog, activeRequests, pendingRequests,
                         requestsRejectedDueToOverload, pool, microtasks,
                         directChecks>>]_vars

\* A call without a path failed with NotFoundException before shutdown,
\* while another request was being processed.
C22_Witness ==
  /\ ~isShuttingDown
  /\ activeRequests > 0
  /\ \E r \in Reqs :
       /\ calls[r].out = "NotFoundException"
       /\ calls[r].via = "none" /\ calls[r].key = <<>>

\* ------------------------------------------------------------------------
\* Claims about the path utility (checked under ParseSpec)
\* ------------------------------------------------------------------------

\* The maximum length a call's options give, and whether validateOptions
\* accepts it.
MaxLengthOf(options) ==
  IF "maxLength" \in DOMAIN options THEN options.maxLength ELSE MAX_LENGTH_POSIX
ValidOptions(options) ==
  MaxLengthOf(options) >= 1 /\ MaxLengthOf(options) <= MAX_LENGTH_POSIX

\* The last call of the path utility, by function.
Parsed == parsed.op = "parsePathComprehensive"
Sanitized == parsed.op = "sanitizePaths"

\* A path sanitizePaths does not accept, and the first such path of a list.
Offending(path, options) == containsNullByte(path) \/ Len(path) > MaxLengthOf(options)
FirstOffending(paths, options) ==
  CHOOSE i \in 1..Len(paths) :
    Offending(paths[i], options) /\ \A j \in 1..(i - 1) : ~Offending(paths[j], options)

\* C23 as stated: parsePathComprehensive and sanitizePaths raise
\* SecurityError for every path input that contains a null byte, and raise
\* PathError whenever the (combined) input is longer than the maximum
\* length; neither returns a result then.
C23_NullByteAndTooLong ==
  /\ Parsed =>
       /\ containsNullByte(parsed.path) => parsed.outcome = Throw("SecurityError")
       /\ Len(parsed.path \o parsed.filename) > MaxLengthOf(parsed.options)
            => parsed.outcome = Throw("PathError")
  /\ Sanitized =>
       \A i \in 1..Len(parsed.paths) :
         /\ containsNullByte(parsed.paths[i]) => parsed.outcome = Throw("SecurityError")
         /\ Len(parsed.paths[i]) > MaxLengthOf(parsed.options)
              => parsed.outcome = Throw("PathError")

\* C23, amended: called with options validateOptions accepts,
\* parsePathComprehensive raises PathError when path and file name together
\* are longer than the maximum length, and SecurityError when they are not
\* and the path contains a null byte; sanitizePaths raises, for the first
\* of its paths that contains a null byte or is longer than the maximum
\* length, SecurityError if that path contains a null byte and PathError if
\* not. A call that raises returns no result, partial or whole.
C23_ErrorsByPrecedence ==
  /\ Parsed /\ ValidOptions(parsed.options) =>
       /\ Len(parsed.path \o parsed.filename) > MaxLengthOf(parsed.options)
            => parsed.outcome = Throw("PathError")
       /\ (/\ Len(parsed.path \o parsed.filename) <= MaxLengthOf(parsed.options)
           /\ containsNullByte(parsed.path))
            => parsed.outcome = Throw("SecurityError")
  /\ Sanitized /\ ValidOptions(parsed.options) =>
       ((\E i \in 1..Len(parsed.paths) : Offending(parsed.paths[i], parsed.options))
          => parsed.outcome =
               Throw(IF containsNullByte(parsed.paths[FirstOffending(parsed.paths, parsed.options)])
                     THEN "SecurityError" ELSE "PathError"))
  /\ (parsed # NoOp /\ ~parsed.outcome.ok) => "value" \notin DOMAIN parsed.outcome

\* A path with a null byte, within the maximum length together with its
\* file name, was refused with SecurityError.
C23_Witness ==
  /\ Parsed
  /\ ValidOptions(parsed.options)
  /\ containsNullByte(parsed.path)
  /\ parsed.filename # <<>>
  /\ Len(parsed.path \o parsed.filename) <= MaxLengthOf(parsed.options)
  /\ parsed.outcome = Throw("SecurityError")

\* ------------------------------------------------------------------------
\* C24 (checked under CacheSpec)
\* ------------------------------------------------------------------------

\* Shard s holds an entry under key.
Present(sh, key) == IndexOf(sh[getShard(key)], key) # 0

\* C24: a set() of a key that is not present in its shard, the shard
\* holding SHARD_SIZE entries, removes exactly one entry of the shard (which
\* holds SHARD_SIZE entries again once the key is stored) and adds exactly
\* one to the eviction counter.
C24_FullShardEvictsOne ==
  [][\A key \in CacheKeys :
       (/\ SetCall
        /\ cacheLog'.key = key
        /\ ~Present(shards, key)
        /\ Len(shards[getShard(key)]) = SHARD_SIZE)
         => /\ Len(shards'[getShard(key)]) = SHARD_SIZE
            /\ Present(shards', key)
            /\ stats'.e = stats.e + 1]_vars

\* ------------------------------------------------------------------------
\* C25 (checked under PoolQueueSpec)
\* ------------------------------------------------------------------------

\* The requests whose tasks wait in a task queue, and those whose tasks
\* are in flight on a worker.
Waiting(queue) == {queue[i].req : i \in 1..Len(queue)}
InFlight(activeTasks) ==
  {activeTasks[i].req : i \in {k \in 1..Len(activeTasks) : activeTasks[k] # Null}}

\* The step assigns the waiting task x to a worker.
Assigned(x) ==
  /\ x.req \in Waiting(pool.taskQueue)
  /\ x.req \notin Waiting(pool'.taskQueue)
  /\ x.req \in InFlight(pool'.activeTasks)

\* The step leaves the waiting task x in taskQueue.
KeptWaiting(x) == x.req \in Waiting(pool.taskQueue) /\ x.req \in Waiting(pool'.taskQueue)

\* C25: processQueue assigns no task while a task of strictly higher
\* priority stays waiting in taskQueue, nor while a task of equal priority
\* whose checkPath call was made earlier stays waiting; for every mix of
\* priorities. (No request waits for admission here, so checkPath calls
\* are made in the order of the requests.)
C25_AssignByPriority ==
  [][\A i, j \in 1..Len(pool.taskQueue) :
       (Assigned(pool.taskQueue[i]) /\ KeptWaiting(pool.taskQueue[j]))
         => /\ pool.taskQueue[j].priority <= pool.taskQueue[i].priority
            /\ pool.taskQueue[j].priority = pool.taskQueue[i].priority
                 => pool.taskQueue[i].req < pool.taskQueue[j].req]_vars

\* ------------------------------------------------------------------------
\* C26 (checked under QueueSpec)
\* ------------------------------------------------------------------------

\* The element a stable sort of queue by descending priority puts first:
\* the first of those of the highest priority.
FirstBySort(queue) ==
  queue[CHOOSE i \in 1..Len(queue) :
          \A j \in 1..Len(queue) :
            \/ queue[j].priority < queue[i].priority
            \/ queue[j].priority = queue[i].priority /\ i <= j]

\* C26: the request that leaves pendingRequests under the code's
\* conditional sort is the one that would leave it if the queue were
\* stable-sorted by descending priority before every dequeue, whatever the
\* priorities.
C26_ConditionalSortIsSort ==
  [][\A i \in 1..Len(pendingRequests) :
       Dequeued(pendingRequests[i])
         => pendingRequests[i] = FirstBySort(pendingRequests)]_vars

\* ------------------------------------------------------------------------
\* C27 (checked under SilentSpec)
\* ------------------------------------------------------------------------

\* A task waits in taskQueue while some worker has a free slot.
Stranded ==
  /\ pool.taskQueue # <<>>
  /\ \E w \in DOMAIN pool.workerStatus :
       pool.workerStatus[w] < pool.maxConcurrentTasksPerWorker

\* C27: whenever a task waits in taskQueue next to a worker with a free
\* slot, a waiting task is eventually assigned (the only way the state
\* ends while workers stay silent), without any further checkPath call or
\* worker message.
C27_NoStrandedTask == Stranded ~> ~Stranded

\* ------------------------------------------------------------------------
\* C28 (checked under ShutdownSpec)
\* ------------------------------------------------------------------------

\* Call r has been made and has not settled; call r has settled.
InProgress(r) == IF r \in Reqs THEN calls[r].out = "pending" ELSE FALSE
Settled(r) == IF r \in Reqs THEN calls[r].out # "pending" ELSE FALSE

\* C28: a getWorkingFilePath call that is in progress when shutdown() has
\* been called, its task waiting in taskQueue or in flight on a worker at
\* that moment, eventually settles.
C28_SettlesAcrossShutdown ==
  \A r \in 1..MaxCalls : (isShuttingDown /\ InProgress(r)) ~> Settled(r)

\* ------------------------------------------------------------------------
\* C29 and C30 (checked under ReconfigSpec)
\* ------------------------------------------------------------------------

\* The settings of a configuration, and the numeric ones among them.
Settings == DOMAIN DEFAULT_CONFIG
NumericSettings == {"cacheTTLMs", "maxConcurrentChecks", "maxPendingRequests"}

\* A number that is NaN, zero or negative.
Invalid(value) == IsNaN(value) \/ value <= 0

\* C29: updateConfig changes only the settings its argument names: a
\* setting that is not supplied, basePath included, keeps its value, and
\* so does a numeric setting supplied with an invalid value (NaN, zero or
\* negative).
C29_UpdateChangesOnlySupplied ==
  [][\A update \in Updates :
       UpdateConfigWith(update)
         => \A field \in Settings :
              (\/ field \notin DOMAIN update
               \/ field \in NumericSettings /\ Invalid(update[field]))
                => config'[field] = config[field]]_vars

\* C30, for the calls answered from the cache: the path a cache hit returns
\* is the current config.basePath followed by the normalized key of the
\* requested path, whatever updateConfig calls came before.
C30_HitBuiltFromCurrentBase ==
  [][(Called /\ calls'[NewReq].out = "ok")
       => calls'[NewReq].val = config.basePath \o calls'[NewReq].key]_vars

====
